---------------------------- MODULE Spec2Model ----------------------------
(***************************************************************************)
(* Model of the synexa client: Synexa.wait / waitWithBlock /               *)
(* waitWithPolling / getPrediction (src/src/index.ts) and FileOutput       *)
(* (src/src/file-output.ts).                                               *)
(*                                                                         *)
(* One wait call is followed from its entry to the settling of the promise *)
(* it returns.  A step of the model is one run of JavaScript between two   *)
(* awaits: the event loop runs such a piece to its end before anything     *)
(* else happens.  The server, the timer and the owner of the AbortSignal   *)
(* are the environment.                                                    *)
(***************************************************************************)
EXTENDS Naturals, Sequences, FiniteSets, TLC

VARIABLES
    pc,          \* where the wait call stands: idle, block_await, sleeping, fetching, done
    prediction,  \* the `prediction` argument of wait (the entry handle)
    options,     \* the `options` argument: [type, timeout]
    progress,    \* whether a `progress` callback was passed
    signal,      \* the `signal` argument: "none", "active" or "aborted"
    current,     \* waitWithPolling's local `currentPrediction`
    outcome,     \* how the promise returned by wait settled
    events,      \* history: progress calls, requests, their ends and aborts, in order
    entrySignal, \* history: the signal as it was when wait was called
    caught,      \* history: what waitWithBlock's catch block caught, if anything
    url_,        \* FileOutput.url_
    blob_,       \* FileOutput.blob_: None, or Some(id of the stored promise)
    promises,    \* the promises created by fetch(url_).then(...): id -> state
    fetches,     \* history: the URLs handed to fetch(), in order
    calls,       \* history: one record per blob() call
    runPc,       \* where the run call stands: none, idle, creating, waiting, done
    identifier,  \* the `identifier` argument of run
    runOutcome,  \* how the promise returned by run settled
    creates      \* history: the bodies of the POST /predictions requests

waitVars == <<pc, prediction, options, progress, signal, current, outcome,
              events, entrySignal, caught>>
fileVars == <<url_, blob_, promises, fetches, calls>>
runVars == <<runPc, identifier, runOutcome, creates>>
vars == <<pc, prediction, options, progress, signal, current, outcome,
          events, entrySignal, caught, url_, blob_, promises, fetches, calls,
          runPc, identifier, runOutcome, creates>>

(***************************************************************************)
(* Bounds of the model.                                                    *)
(***************************************************************************)
\* status fetches one wait call may issue before the model stops the timer
MaxFetches == 3
\* blob() calls made on one FileOutput
MaxCalls == 4

(***************************************************************************)
(* Values.  A nullable field is None (null) or Some(v).                    *)
(***************************************************************************)
None == <<>>
Some(v) == <<v>>

\* `options.timeout || 60`
DefaultTimeout == 60

Terminal == {"succeeded", "failed"}

\* PredictionResponse: the fields the client reads (id, status, error, output).
Snap(st, err, out) == [id |-> "p1", status |-> st, error |-> err, output |-> out]

Snapshots ==
    { Snap("starting", None, None),
      Snap("processing", None, None),
      Snap("succeeded", None, Some(<<"hello">>)),
      Snap("succeeded", None, None),
      Snap("succeeded", None, Some(<<>>)),
      Snap("succeeded", None,
           Some(<<"hello", "https://host/file.png", "httpd started">>)),
      Snap("failed", Some("boom"), None),
      Snap("failed", Some("oom"), None) }

\* What `${x}` gives for a nullable string.
Text(x) == IF x = None THEN "null" ELSE x[1]

Pending == [kind |-> "pending", value |-> None, message |-> ""]
Returned(p) == [kind |-> "returned", value |-> Some(p), message |-> ""]
Thrown(k, m) == [kind |-> k, value |-> None, message |-> m]

(***************************************************************************)
(* The transport (axios, index.ts line 1).  A request ends with a response *)
(* or with a rejection; the client reads of a rejection its name, its      *)
(* message and whether axios.isAxiosError holds of it.                     *)
(***************************************************************************)
Err(ax, n, m) == [axios |-> ax, name |-> n, message |-> m]

\* A request that fails on its own: no connection, an HTTP error status, or
\* something thrown that is no axios error.
Failures ==
    { Err(TRUE, "AxiosError", "Network Error"),
      Err(FALSE, "TypeError", "bad response") }

\* The rejection of a request whose signal is aborted.  Its name is the
\* transport's choice, not this code's: axios rejects with its CanceledError,
\* a fetch-style transport with a DOMException named AbortError.
Aborts ==
    { Err(FALSE, "AbortError", "The operation was aborted"),
      Err(TRUE, "CanceledError", "canceled") }

Event(t, a) == [type |-> t, arg |-> a]

\* Report, were progress called only for a prediction still running
ReportRunning(ev, prog, p) ==
    IF prog /\ p.status \notin Terminal THEN Append(ev, Event("progress", p)) ELSE ev

\* Report, were a `failed` snapshot thrown on before progress is told
ReportNotFailed(ev, prog, p) ==
    IF prog /\ p.status # "failed" THEN Append(ev, Event("progress", p)) ELSE ev

\* `if (progress) { progress(p); }`
Report(ev, prog, p) == IF prog THEN Append(ev, Event("progress", p)) ELSE ev

OfType(t) == SelectSeq(events, LAMBDA e : e.type = t)
Args(seq) == [i \in 1..Len(seq) |-> seq[i].arg]
\* the snapshots received from the server, by either request, in order
Received ==
    Args(SelectSeq(events, LAMBDA e : e.type \in {"wait_response", "get_response"}))
\* the snapshots passed to progress, the snapshots the status fetches and
\* the blocking request returned, the blocking requests and the status
\* fetches issued
ProgressCalls == Args(OfType("progress"))
Fetched == Args(OfType("get_response"))
WaitResponses == Args(OfType("wait_response"))
WaitRequests == OfType("post_wait")
StatusFetches == OfType("get")

\* PollLoop without the test of the signal (lines 98-100)
PollLoopNoCancel(cur, sig) ==
    IF cur.status # "succeeded" /\ cur.status # "failed"
    THEN [pc |-> "sleeping", outcome |-> Pending]
    ELSE IF cur.status = "failed"
         THEN [pc |-> "done",
               outcome |-> Thrown("PredictionFailed",
                                  "Prediction failed: " \o Text(cur.error))]
         ELSE [pc |-> "done", outcome |-> Returned(cur)]

\* PollLoop, were the loop to go on until `succeeded` alone
PollLoopSucceededOnly(cur, sig) ==
    IF cur.status # "succeeded"
    THEN IF sig = "aborted"
         THEN [pc |-> "done", outcome |-> Thrown("Cancelled", "Prediction cancelled")]
         ELSE [pc |-> "sleeping", outcome |-> Pending]
    ELSE [pc |-> "done", outcome |-> Returned(cur)]

\* PollLoop without the test for `failed` after the loop (lines 110-112)
PollLoopReturnsFailed(cur, sig) ==
    IF cur.status # "succeeded" /\ cur.status # "failed"
    THEN IF sig = "aborted"
         THEN [pc |-> "done", outcome |-> Thrown("Cancelled", "Prediction cancelled")]
         ELSE [pc |-> "sleeping", outcome |-> Pending]
    ELSE [pc |-> "done", outcome |-> Returned(cur)]

\* PollLoop, were the signal tested before the status
PollLoopCancelFirst(cur, sig) ==
    IF sig = "aborted"
    THEN [pc |-> "done", outcome |-> Thrown("Cancelled", "Prediction cancelled")]
    ELSE IF cur.status # "succeeded" /\ cur.status # "failed"
         THEN [pc |-> "sleeping", outcome |-> Pending]
         ELSE IF cur.status = "failed"
              THEN [pc |-> "done",
                    outcome |-> Thrown("PredictionFailed",
                                       "Prediction failed: " \o Text(cur.error))]
              ELSE [pc |-> "done", outcome |-> Returned(cur)]

(***************************************************************************)
(* waitWithPolling, from the top of its loop to the next await or to the   *)
(* end: where the call stands then and how it settled.                     *)
(***************************************************************************)
PollLoop(cur, sig) ==
    IF cur.status # "succeeded" /\ cur.status # "failed"
    THEN IF sig = "aborted"
         THEN [pc |-> "done", outcome |-> Thrown("Cancelled", "Prediction cancelled")]
         ELSE [pc |-> "sleeping", outcome |-> Pending]
    ELSE IF cur.status = "failed"
         THEN [pc |-> "done",
               outcome |-> Thrown("PredictionFailed",
                                  "Prediction failed: " \o Text(cur.error))]
         ELSE [pc |-> "done", outcome |-> Returned(cur)]

\* GetPredictionCatch, were the transport's message left out
GetPredictionCatchNoMessage(error) ==
    IF error.axios
    THEN Thrown("StatusFetchFailed", "Failed to get prediction")
    ELSE Thrown("Raw", error.message)

\* getPrediction's catch: an axios error is wrapped, anything else rethrown.
GetPredictionCatch(error) ==
    IF error.axios
    THEN Thrown("StatusFetchFailed", "Failed to get prediction: " \o error.message)
    ELSE Thrown("Raw", error.message)

(***************************************************************************)
(* waitWithBlock.  The try block ends by returning `result` or by          *)
(* throwing; whatever is thrown inside it, by the request or by line 136,  *)
(* reaches the catch.                                                      *)
(***************************************************************************)
Value(p) == [thrown |-> FALSE, value |-> p, error |-> Err(FALSE, "", "")]
Throw(e) == [thrown |-> TRUE, value |-> Snap("", None, None), error |-> e]

\* lines 135-139, after the response
BlockTry(result) ==
    IF result.status = "failed"
    THEN Throw(Err(FALSE, "Error", "Prediction failed: " \o Text(result.error)))
    ELSE Value(result)

\* BlockCatch, were the catch to rethrow what it does not know
BlockCatchRethrow(error) ==
    IF error.name = "AbortError"
    THEN [fallback |-> FALSE, outcome |-> Thrown("Cancelled", "Prediction cancelled")]
    ELSE [fallback |-> FALSE, outcome |-> Thrown("Raw", error.message)]

\* lines 140-146: [cancelled, or go on to waitWithPolling]
BlockCatch(error) ==
    IF error.name = "AbortError"
    THEN [fallback |-> FALSE, outcome |-> Thrown("Cancelled", "Prediction cancelled")]
    ELSE [fallback |-> TRUE, outcome |-> Pending]

\* how waitWithBlock goes on once its try block has ended with `t`
BlockSettle(t, entry, sig) ==
    IF ~t.thrown
    THEN [pc |-> "done", outcome |-> Returned(t.value), current |-> None]
    ELSE LET c == BlockCatch(t.error)
         IN IF c.fallback
            THEN [pc |-> PollLoop(entry, sig).pc,
                  outcome |-> PollLoop(entry, sig).outcome,
                  current |-> Some(entry)]
            ELSE [pc |-> "done", outcome |-> c.outcome, current |-> None]

(***************************************************************************)
(* Before the call: the caller's arguments.  The signal, when there is     *)
(* one, may be aborted by its owner at any time, before the call too.      *)
(***************************************************************************)
WaitOptions == [type : {"block", "poll"}, timeout : {0, 30}]

InitWait ==
    /\ pc = "idle"
    /\ prediction \in Snapshots
    /\ options \in WaitOptions
    /\ progress \in BOOLEAN
    /\ signal \in {"none", "active"}
    /\ current = None
    /\ outcome = Pending
    /\ events = <<>>
    /\ entrySignal = "none"
    /\ caught = "no"

\* AbortController.abort() by the owner of the signal
Abort ==
    /\ signal = "active"
    /\ signal' = "aborted"
    /\ events' = Append(events, Event("abort", pc))
    /\ UNCHANGED <<pc, prediction, options, progress, current, outcome,
                   entrySignal, caught>>
    /\ UNCHANGED fileVars
    /\ UNCHANGED runVars

\* the body of the blocking request: `{ timeout: options.timeout || 60 }`
WaitBody(p, opts) == [id |-> p.id,
                      timeout |-> IF opts.timeout = 0 THEN DefaultTimeout ELSE opts.timeout]

\* WaitCall, were waitWithBlock to answer at once for a handle already terminal
WaitCallSkipsTerminal(p) ==
    /\ pc = "idle"
    /\ entrySignal' = signal
    /\ IF options.type = "block" /\ p.status \notin Terminal
       THEN /\ events' = Append(Report(events, progress, p),
                                Event("post_wait", WaitBody(p, options)))
            /\ pc' = "block_await"
            /\ current' = None
            /\ outcome' = Pending
       ELSE /\ events' = Report(events, progress, p)
            /\ pc' = PollLoop(p, signal).pc
            /\ current' = Some(p)
            /\ outcome' = PollLoop(p, signal).outcome
    /\ UNCHANGED <<options, progress, signal, caught>>
    /\ UNCHANGED fileVars

\* wait(p, options, signal, progress) (lines 149-166), with waitWithBlock up
\* to its await of the request (line 124) or waitWithPolling up to its first
\* await (line 102)
WaitCall(p) ==
    /\ pc = "idle"
    /\ entrySignal' = signal
    /\ IF options.type = "block"
       THEN /\ events' = Append(Report(events, progress, p),
                                Event("post_wait", WaitBody(p, options)))
            /\ pc' = "block_await"
            /\ current' = None
            /\ outcome' = Pending
       ELSE /\ events' = Report(events, progress, p)
            /\ pc' = PollLoop(p, signal).pc
            /\ current' = Some(p)
            /\ outcome' = PollLoop(p, signal).outcome
    /\ UNCHANGED <<options, progress, signal, caught>>
    /\ UNCHANGED fileVars

\* a caller's wait on the handle it holds
Wait ==
    /\ WaitCall(prediction)
    /\ UNCHANGED prediction
    /\ UNCHANGED runVars

\* what reaches the catch of waitWithBlock, for the history
Reason(t) ==
    IF ~t.thrown THEN "no"
    ELSE IF t.error \in Aborts THEN "aborted"
    ELSE IF t.error \in Failures THEN "rejected"
    ELSE "failed_result"

\* the blocking request's response arrives (lines 129-139, then the catch)
BlockResponse(result) ==
    /\ pc = "block_await"
    /\ signal # "aborted"
    /\ events' = Report(Append(events, Event("wait_response", result)), progress, result)
    /\ LET s == BlockSettle(BlockTry(result), prediction, signal)
       IN /\ pc' = s.pc
          /\ outcome' = s.outcome
          /\ current' = s.current
    /\ caught' = Reason(BlockTry(result))
    /\ UNCHANGED <<prediction, options, progress, signal, entrySignal>>
    /\ UNCHANGED fileVars
    /\ UNCHANGED runVars

\* the blocking request fails on its own (lines 140-146)
BlockFails(error) ==
    /\ pc = "block_await"
    /\ signal # "aborted"
    /\ LET s == BlockSettle(Throw(error), prediction, signal)
       IN /\ pc' = s.pc
          /\ outcome' = s.outcome
          /\ current' = s.current
    /\ caught' = Reason(Throw(error))
    /\ events' = Append(events, Event("wait_error", error))
    /\ UNCHANGED <<prediction, options, progress, signal, entrySignal>>
    /\ UNCHANGED fileVars
    /\ UNCHANGED runVars

\* the blocking request is rejected because its signal is aborted
BlockAborted(error) ==
    /\ pc = "block_await"
    /\ signal = "aborted"
    /\ LET s == BlockSettle(Throw(error), prediction, signal)
       IN /\ pc' = s.pc
          /\ outcome' = s.outcome
          /\ current' = s.current
    /\ caught' = Reason(Throw(error))
    /\ events' = Append(events, Event("wait_error", error))
    /\ UNCHANGED <<prediction, options, progress, signal, entrySignal>>
    /\ UNCHANGED fileVars
    /\ UNCHANGED runVars

\* TimerFires, were the loop to give up after two fetches
TimerGivesUp ==
    /\ pc = "sleeping"
    /\ Len(StatusFetches) < MaxFetches
    /\ IF Len(StatusFetches) >= 2
       THEN /\ pc' = "done"
            /\ outcome' = Thrown("Timeout", "Prediction timed out")
            /\ UNCHANGED events
       ELSE /\ events' = Append(events, Event("get", current[1].id))
            /\ pc' = "fetching"
            /\ UNCHANGED outcome
    /\ UNCHANGED <<prediction, options, progress, signal, current,
                   entrySignal, caught>>
    /\ UNCHANGED fileVars
    /\ UNCHANGED runVars

\* the sleep ends and getPrediction issues its request (lines 102-103, 78)
TimerFires ==
    /\ pc = "sleeping"
    /\ Len(StatusFetches) < MaxFetches
    /\ events' = Append(events, Event("get", current[1].id))
    /\ pc' = "fetching"
    /\ UNCHANGED <<prediction, options, progress, signal, current, outcome,
                   entrySignal, caught>>
    /\ UNCHANGED fileVars
    /\ UNCHANGED runVars

\* the status fetch answers (lines 79, 103-108, then the loop again)
FetchResponse(snap) ==
    /\ pc = "fetching"
    /\ current' = Some(snap)
    /\ events' = Report(Append(events, Event("get_response", snap)), progress, snap)
    /\ pc' = PollLoop(snap, signal).pc
    /\ outcome' = PollLoop(snap, signal).outcome
    /\ UNCHANGED <<prediction, options, progress, signal, entrySignal, caught>>
    /\ UNCHANGED fileVars
    /\ UNCHANGED runVars

\* FetchFails, were a failed fetch tried again after the next sleep
FetchFailsRetries(error) ==
    /\ pc = "fetching"
    /\ pc' = "sleeping"
    /\ events' = Append(events, Event("get_error", error))
    /\ UNCHANGED <<prediction, options, progress, signal, current, outcome,
                   entrySignal, caught>>
    /\ UNCHANGED fileVars
    /\ UNCHANGED runVars

\* the status fetch fails (lines 80-85); nothing in waitWithPolling catches it
FetchFails(error) ==
    /\ pc = "fetching"
    /\ pc' = "done"
    /\ outcome' = GetPredictionCatch(error)
    /\ events' = Append(events, Event("get_error", error))
    /\ UNCHANGED <<prediction, options, progress, signal, current,
                   entrySignal, caught>>
    /\ UNCHANGED fileVars
    /\ UNCHANGED runVars

(***************************************************************************)
(* FileOutput (file-output.ts).  blob() has no await: each call runs from  *)
(* its test of blob_ to its return in one piece.  The promise it stores is *)
(* settled later by the platform's fetch, and each caller sees the         *)
(* settled promise later still.                                            *)
(***************************************************************************)
Urls == {"https://host/file.png", "https://host/b.bin"}

Unsettled == [state |-> "pending", value |-> ""]
\* how fetch(url).then(res => res.blob()) may settle
Settlements ==
    { [state |-> "fulfilled", value |-> "bytes-1"],
      [state |-> "fulfilled", value |-> "bytes-2"],
      [state |-> "rejected", value |-> "fetch failed"] }

\* no FileOutput constructed
NoFile ==
    /\ url_ = ""
    /\ blob_ = None
    /\ promises = <<>>
    /\ fetches = <<>>
    /\ calls = <<>>

\* new FileOutput(url) (lines 5-10)
InitFile ==
    /\ url_ \in Urls
    /\ blob_ = None
    /\ promises = <<>>
    /\ fetches = <<>>
    /\ calls = <<>>

\* url() (lines 12-14)
Url == url_

\* NeedsFetch, were blob_ never looked at
NeedsFetchAlways(b, ps) == TRUE

\* NeedsFetch, were a failed fetch tried again
NeedsFetchRetry(b, ps) == b = None \/ ps[b[1]].state = "rejected"

\* `if (!this.blob_)` (line 17)
NeedsFetch(b, ps) == b = None

\* blob() (lines 16-21)
Blob ==
    /\ Len(calls) < MaxCalls
    /\ IF NeedsFetch(blob_, promises)
       THEN /\ fetches' = Append(fetches, url_)
            /\ promises' = Append(promises, Unsettled)
            /\ blob_' = Some(Len(promises) + 1)
       ELSE UNCHANGED <<fetches, promises, blob_>>
    /\ calls' = Append(calls, [promise |-> blob_'[1], seen |-> Unsettled])
    /\ UNCHANGED url_
    /\ UNCHANGED waitVars
    /\ UNCHANGED runVars

\* the byte fetch behind promise `id` ends
FetchSettles(id, r) ==
    /\ id \in DOMAIN promises
    /\ promises[id] = Unsettled
    /\ promises' = [promises EXCEPT ![id] = r]
    /\ UNCHANGED <<url_, blob_, fetches, calls>>
    /\ UNCHANGED waitVars
    /\ UNCHANGED runVars

\* the caller of call `i` gets what its `await output.blob()` gives
CallerResumes(i) ==
    /\ i \in DOMAIN calls
    /\ calls[i].seen = Unsettled
    /\ promises[calls[i].promise] # Unsettled
    /\ calls' = [calls EXCEPT ![i].seen = promises[calls[i].promise]]
    /\ UNCHANGED <<url_, blob_, promises, fetches>>
    /\ UNCHANGED waitVars
    /\ UNCHANGED runVars

(***************************************************************************)
(* run (index.ts lines 168-199): createPrediction, wait, then the mapping  *)
(* of the output list.                                                     *)
(***************************************************************************)
Identifiers == {"owner/name", "owner/name:v1", "name"}

\* String.prototype.split for a separator of one character
RECURSIVE Split(_, _)
Split(s, c) ==
    IF s = "" THEN <<"">>
    ELSE LET rest == Split(Tail(s), c)
         IN IF Head(s) = c
            THEN <<"">> \o rest
            ELSE <<Head(s) \o rest[1]>> \o Tail(rest)

\* String.prototype.startsWith
StartsWith(s, prefix) ==
    Len(s) >= Len(prefix) /\ SubSeq(s, 1, Len(prefix)) = prefix

\* an element of run's result: a FileOutput (url_, blob_) or the string itself
FileOutput(url) == [type |-> "FileOutput", url_ |-> url, blob_ |-> None, value |-> ""]
Plain(str) == [type |-> "string", url_ |-> "", blob_ |-> None, value |-> str]

\* the callback of result.output.map (lines 193-198)
MapOutput(output) ==
    IF StartsWith(output, "http") THEN FileOutput(output) ELSE Plain(output)

\* run's own result, a list, as the settling of its promise
ReturnedList(list) == [kind |-> "returned", value |-> list, message |-> ""]

\* createPrediction's catch (lines 68-73)
CreatePredictionCatch(error) ==
    IF error.axios
    THEN Thrown("SubmissionFailed", "Failed to create prediction: " \o error.message)
    ELSE Thrown("Raw", error.message)

\* lines 189-198, once wait has returned `result`
RunResult(result) ==
    IF result.output = None
    THEN Thrown("NoOutput", "No output received from the prediction")
    ELSE ReturnedList([i \in 1..Len(result.output[1]) |-> MapOutput(result.output[1][i])])

InitRun ==
    /\ runPc = "idle"
    /\ identifier \in Identifiers
    /\ runOutcome = Pending
    /\ creates = <<>>
    /\ pc = "idle"
    /\ prediction = Snap("", None, None)
    /\ options \in WaitOptions
    /\ progress \in BOOLEAN
    /\ signal \in {"none", "active"}
    /\ current = None
    /\ outcome = Pending
    /\ events = <<>>
    /\ entrySignal = "none"
    /\ caught = "no"

\* run up to its await of createPrediction (lines 172-180, 66); an identifier
\* without "/" leaves `model` undefined and model.split throws
Run ==
    /\ runPc = "idle"
    /\ LET parts == Split(identifier, "/")
       IN IF Len(parts) < 2
          THEN /\ runPc' = "done"
               /\ runOutcome' = Thrown("Raw", "Cannot read properties of undefined")
               /\ UNCHANGED creates
          ELSE /\ runPc' = "creating"
               /\ creates' = Append(creates,
                                    [model |-> parts[1] \o "/" \o Split(parts[2], ":")[1]])
               /\ UNCHANGED runOutcome
    /\ UNCHANGED identifier
    /\ UNCHANGED waitVars
    /\ UNCHANGED fileVars

\* POST /predictions answers; run calls wait with the new handle (lines 67, 182-187)
CreateResponse(p) ==
    /\ runPc = "creating"
    /\ runPc' = "waiting"
    /\ prediction' = p
    /\ WaitCall(p)
    /\ UNCHANGED <<identifier, runOutcome, creates>>

\* POST /predictions fails (lines 68-73); run does not catch
CreateFails(error) ==
    /\ runPc = "creating"
    /\ runPc' = "done"
    /\ runOutcome' = CreatePredictionCatch(error)
    /\ events' = Append(events, Event("create_error", error))
    /\ UNCHANGED <<identifier, creates>>
    /\ UNCHANGED <<pc, prediction, options, progress, signal, current, outcome,
                   entrySignal, caught>>
    /\ UNCHANGED fileVars

\* wait has settled and run goes on (lines 182-198)
RunResumes ==
    /\ runPc = "waiting"
    /\ pc = "done"
    /\ runPc' = "done"
    /\ runOutcome' = (IF outcome.kind = "returned"
                      THEN RunResult(outcome.value[1])
                      ELSE outcome)
    /\ UNCHANGED <<identifier, creates>>
    /\ UNCHANGED waitVars
    /\ UNCHANGED fileVars

(***************************************************************************)
(* Specifications: one wait call; one FileOutput and its callers; one run  *)
(* call.                                                                   *)
(***************************************************************************)
\* run not called
NoRun ==
    /\ runPc = "none"
    /\ identifier = ""
    /\ runOutcome = Pending
    /\ creates = <<>>

Init == InitWait /\ NoFile /\ NoRun

Next ==
    \/ Abort
    \/ Wait
    \/ \E result \in Snapshots : BlockResponse(result)
    \/ \E error \in Failures : BlockFails(error)
    \/ \E error \in Aborts : BlockAborted(error)
    \/ TimerFires
    \/ \E snap \in Snapshots : FetchResponse(snap)
    \/ \E error \in Failures : FetchFails(error)

Spec == Init /\ [][Next]_vars

NoWait ==
    /\ pc = "idle"
    /\ prediction = Snap("starting", None, None)
    /\ options = [type |-> "block", timeout |-> 0]
    /\ progress = FALSE
    /\ signal = "none"
    /\ current = None
    /\ outcome = Pending
    /\ events = <<>>
    /\ entrySignal = "none"
    /\ caught = "no"

InitF == NoWait /\ InitFile /\ NoRun

NextFile ==
    \/ Blob
    \/ \E id \in 1..MaxCalls, r \in Settlements : FetchSettles(id, r)
    \/ \E i \in 1..MaxCalls : CallerResumes(i)

SpecFile == InitF /\ [][NextFile]_vars

InitR == InitRun /\ NoFile

NextRun ==
    \/ Abort
    \/ Run
    \/ \E p \in Snapshots : CreateResponse(p)
    \/ \E error \in Failures : CreateFails(error)
    \/ \E result \in Snapshots : BlockResponse(result)
    \/ \E error \in Failures : BlockFails(error)
    \/ \E error \in Aborts : BlockAborted(error)
    \/ TimerFires
    \/ \E snap \in Snapshots : FetchResponse(snap)
    \/ \E error \in Failures : FetchFails(error)
    \/ RunResumes

SpecRun == InitR /\ [][NextRun]_vars

(***************************************************************************)
(* One wait call with a server whose status fetches all succeed and answer *)
(* with a terminal status from fetch number MaxFetches on at the latest.   *)
(* The timer of a sleep fires and a request in flight is answered: both    *)
(* are the event loop's and the server's, and weakly fair.                 *)
(***************************************************************************)
FetchAnswers(snap) ==
    /\ Len(StatusFetches) >= MaxFetches => snap.status \in Terminal
    /\ FetchResponse(snap)

NextLive ==
    \/ Abort
    \/ Wait
    \/ \E result \in Snapshots : BlockResponse(result)
    \/ \E error \in Failures : BlockFails(error)
    \/ \E error \in Aborts : BlockAborted(error)
    \/ TimerFires
    \/ \E snap \in Snapshots : FetchAnswers(snap)

SpecLive ==
    /\ Init
    /\ [][NextLive]_vars
    /\ WF_vars(TimerFires)
    /\ WF_vars(\E snap \in Snapshots : FetchAnswers(snap))

(***************************************************************************)
(* The claims.                                                             *)
(***************************************************************************)
Last(seq) == seq[Len(seq)]
Called == pc # "idle"
Done == pc = "done"

\* C1: whenever wait returns a handle, in either mode and with or without
\* the fallback, that handle's status is `succeeded`; a snapshot with a
\* status such as `starting` or `processing` is never returned.
C1_ReturnsTerminal ==
    outcome.kind = "returned" => outcome.value[1].status = "succeeded"

\* C2: in block mode, once the blocking request has answered with a `failed`
\* snapshot, wait ends with PredictionFailed carrying that snapshot's error
\* text: it returns no handle and fails in no other way.
C2_BlockFailedResult ==
    (WaitResponses # <<>> /\ WaitResponses[1].status = "failed" /\ Done)
        => outcome = Thrown("PredictionFailed",
                            "Prediction failed: " \o Text(WaitResponses[1].error))

\* C3: in block mode, a blocking request that fails on its own is not shown
\* to the caller: wait goes on as poll mode does from the entry handle.  No
\* response and no progress call come from the failed request, the snapshot
\* polled from is the entry handle until a status fetch answers, the call has
\* ended exactly when that snapshot is terminal, the signal was seen aborted
\* or a status fetch failed, and a `succeeded` snapshot is returned.
C3_FallsBackToPolling ==
    caught = "rejected" =>
        /\ WaitResponses = <<>>
        /\ current = Some(IF Fetched = <<>> THEN prediction ELSE Last(Fetched))
        /\ ProgressCalls = (IF progress THEN <<prediction>> \o Fetched ELSE <<>>)
        /\ \A i \in 1..Len(StatusFetches) : StatusFetches[i].arg = prediction.id
        /\ current[1].status = "succeeded" => outcome = Returned(current[1])
        /\ current[1].status = "failed" => outcome.kind = "PredictionFailed"
        /\ outcome.kind = "returned" => current[1].status = "succeeded"
        /\ outcome.kind \in {"StatusFetchFailed", "Raw"}
              => Len(StatusFetches) = Len(Fetched) + 1
        /\ outcome.kind = "Cancelled" => signal = "aborted"
        /\ (Fetched = <<>> /\ prediction.status \notin Terminal /\ Done)
              => outcome.kind = "Cancelled" \/ Len(StatusFetches) = 1

C3_Witness ==
    /\ caught = "rejected"
    /\ Len(Fetched) = 2
    /\ outcome.kind = "returned"
    /\ outcome.value[1].status = "succeeded"

\* C4: in block mode, once the blocking request has been rejected because
\* the signal was aborted, wait has failed with Cancelled, whatever the entry
\* handle: no handle is returned, no other failure raised.
C4_AbortedInFlight ==
    (caught = "aborted" /\ entrySignal = "active")
        => Done /\ outcome.kind = "Cancelled"

\* C5 as stated: with the signal aborted before the call, wait ends, in
\* either mode and for any entry handle, with Cancelled and with neither a
\* blocking request nor a status fetch issued.
C5_AbortedAtEntry ==
    (Done /\ entrySignal = "aborted") =>
        /\ outcome.kind = "Cancelled"
        /\ WaitRequests = <<>>
        /\ StatusFetches = <<>>

\* C5 as amended: with the signal aborted before the call and an entry
\* handle that is not terminal, no status fetch is issued; poll mode issues
\* no request at all and has failed with Cancelled when wait returns its
\* promise; block mode hands its one blocking request to the transport,
\* never sleeps, and ends with Cancelled.
C5_AbortedAtEntryNonTerminal ==
    (Called /\ entrySignal = "aborted" /\ prediction.status \notin Terminal) =>
        /\ StatusFetches = <<>>
        /\ Done => outcome.kind = "Cancelled"
        /\ options.type = "poll" => Done /\ WaitRequests = <<>>
        /\ options.type = "block" =>
              pc \in {"block_await", "done"} /\ Len(WaitRequests) = 1

C5_Witness ==
    /\ entrySignal = "aborted"
    /\ prediction.status \notin Terminal
    /\ options.type = "block"
    /\ caught = "aborted"
    /\ outcome.kind = "Cancelled"

\* C6: in poll mode with a progress callback, once a status fetch has
\* answered `succeeded` (the earlier answers being non-terminal), wait has
\* returned that last fetched snapshot, and progress was called once per
\* fetch plus once: with the entry handle, then with each fetched snapshot
\* in the order fetched.
C6_PollProgress ==
    (options.type = "poll" /\ progress /\ Fetched # <<>>
        /\ Last(Fetched).status = "succeeded") =>
        /\ \A i \in 1..(Len(Fetched) - 1) : Fetched[i].status \notin Terminal
        /\ Done
        /\ outcome = Returned(Last(Fetched))
        /\ ProgressCalls = <<prediction>> \o Fetched
        /\ Len(ProgressCalls) = Len(StatusFetches) + 1

C6_Witness ==
    /\ options.type = "poll"
    /\ progress
    /\ prediction.status = "starting"
    /\ Len(Fetched) = 2
    /\ Fetched[1].status = "processing"
    /\ outcome = Returned(Snap("succeeded", None, Some(<<"hello">>)))
    /\ Len(ProgressCalls) = 3

\* C7: in poll mode, for an entry handle that is `succeeded` or `failed`,
\* wait ends (returning the handle, or failing with PredictionFailed) with
\* no status fetch issued, and progress is called once, with the entry
\* handle.
C7_TerminalAtEntry ==
    (Called /\ options.type = "poll" /\ prediction.status \in Terminal) =>
        /\ Done
        /\ StatusFetches = <<>>
        /\ WaitRequests = <<>>
        /\ outcome = (IF prediction.status = "succeeded"
                      THEN Returned(prediction)
                      ELSE Thrown("PredictionFailed", outcome.message))
        /\ progress => ProgressCalls = <<prediction>>

C7_Witness ==
    /\ Called
    /\ options.type = "poll"
    /\ prediction.status = "failed"
    /\ progress
    /\ outcome.kind = "PredictionFailed"

\* C8: in poll mode, when the snapshot the loop ends on is `failed`, wait
\* fails with PredictionFailed and the message holds that snapshot's error
\* text ("boom" gives "Prediction failed: boom"); a `failed` handle is never
\* returned.
C8_PollFailed ==
    (Called /\ options.type = "poll") =>
        /\ current[1].status = "failed" =>
              /\ Done
              /\ outcome.kind = "PredictionFailed"
              /\ outcome.message = "Prediction failed: " \o Text(current[1].error)
        /\ outcome.kind = "returned" => outcome.value[1].status # "failed"

C8_Witness ==
    /\ options.type = "poll"
    /\ Fetched # <<>>
    /\ Last(Fetched).error = Some("boom")
    /\ outcome = Thrown("PredictionFailed", "Prediction failed: boom")

\* C9: for one FileOutput, the blob() calls made before the first byte
\* fetch has ended, however many and in whatever order, start one byte fetch
\* only, of the reference's URL, and every caller awaits that one promise.
C9_OneFetchWhilePending ==
    (calls # <<>> /\ promises[1] = Unsettled) =>
        /\ fetches = <<url_>>
        /\ Len(promises) = 1
        /\ blob_ = Some(1)
        /\ \A i \in DOMAIN calls : calls[i].promise = 1

C9_Witness ==
    /\ Len(calls) = 3
    /\ promises[1] = Unsettled
    /\ Len(fetches) = 1

\* C10: for one FileOutput, every blob() call sees what the first one sees:
\* the bytes of the first fetch, or its failure; after a failed fetch no
\* other fetch is started, so a reference fetches at most once in its life.
C10_SameOutcome ==
    /\ Len(fetches) <= 1
    /\ Len(promises) = Len(fetches)
    /\ \A i \in DOMAIN calls :
          /\ calls[i].promise = calls[1].promise
          /\ calls[i].seen # Unsettled => calls[i].seen = promises[1]
    /\ \A i, j \in DOMAIN calls :
          (calls[i].seen # Unsettled /\ calls[j].seen # Unsettled)
              => calls[i].seen = calls[j].seen

C10_Witness ==
    /\ Len(calls) = 3
    /\ promises[1].state = "rejected"
    /\ calls[1].seen.state = "rejected"
    /\ calls[3].seen.state = "rejected"
    /\ Len(fetches) = 1

(***************************************************************************)
(* The claims about run.                                                   *)
(***************************************************************************)
RunDone == runPc = "done"
\* the handle wait returned to run
WaitResult == outcome.value[1]
ErrorsOf(t) == Args(OfType(t))

\* C11: run fails with NoOutput whenever the handle wait returned has a
\* null output, NoOutput is raised only for a handle whose status is
\* `succeeded`, and a returned handle with an output never gives NoOutput.
C11_NoOutput ==
    (RunDone /\ outcome.kind = "returned") =>
        /\ WaitResult.output = None => runOutcome.kind = "NoOutput"
        /\ WaitResult.output # None => runOutcome.kind # "NoOutput"
        /\ runOutcome.kind = "NoOutput" => WaitResult.status = "succeeded"

\* what the words "an HTTP(S) URL" ask of a string: one of the two scheme
\* markers at its start
LooksLikeHttpUrl(str) == StartsWith(str, "http://") \/ StartsWith(str, "https://")

\* C12: run's result has the length and the order of the output list;
\* element i is a FileOutput whose url() is output[i] exactly when output[i]
\* looks like an HTTP(S) URL, and is the string output[i] itself otherwise.
C12_OutputMapping ==
    (RunDone /\ runOutcome.kind = "returned") =>
        LET out == WaitResult.output[1]
            res == runOutcome.value
        IN /\ Len(res) = Len(out)
           /\ \A i \in 1..Len(out) :
                 IF LooksLikeHttpUrl(out[i])
                 THEN res[i].type = "FileOutput" /\ res[i].url_ = out[i]
                 ELSE res[i] = Plain(out[i])

\* C13 as stated: an error raised by the transport during submit, getStatus
\* or wait reaches the caller of run only as SubmissionFailed,
\* StatusFetchFailed, PredictionFailed, Cancelled or NoOutput, never raw.
C13_NoRawErrors ==
    (RunDone /\ creates # <<>>) =>
        runOutcome.kind \in {"returned", "SubmissionFailed", "StatusFetchFailed",
                             "PredictionFailed", "Cancelled", "NoOutput"}

\* C13 as amended: an axios error of submit or getStatus reaches the caller
\* as SubmissionFailed or StatusFetchFailed with the transport's message at
\* the end of its own; an error that is no axios error reaches the caller
\* unchanged; an error of the blocking request is never what the caller gets.
C13_WrappedOrRethrown ==
    (RunDone /\ creates # <<>>) =>
        /\ ErrorsOf("create_error") # <<>> =>
              LET e == ErrorsOf("create_error")[1]
              IN runOutcome =
                    (IF e.axios
                     THEN Thrown("SubmissionFailed",
                                 "Failed to create prediction: " \o e.message)
                     ELSE Thrown("Raw", e.message))
        /\ ErrorsOf("get_error") # <<>> =>
              LET e == ErrorsOf("get_error")[1]
              IN runOutcome =
                    (IF e.axios
                     THEN Thrown("StatusFetchFailed",
                                 "Failed to get prediction: " \o e.message)
                     ELSE Thrown("Raw", e.message))
        /\ runOutcome.kind \in {"SubmissionFailed", "StatusFetchFailed", "Raw"}
              => ErrorsOf("create_error") \o ErrorsOf("get_error") # <<>>

C13_Witness ==
    /\ RunDone
    /\ ErrorsOf("wait_error") # <<>>
    /\ runOutcome = Thrown("StatusFetchFailed",
                           "Failed to get prediction: Network Error")

(***************************************************************************)
(* The claims about the order of one wait call's steps.                    *)
(***************************************************************************)
\* the history without the aborts, which are the environment's
Steps == SelectSeq(events, LAMBDA e : e.type # "abort")
\* the newest snapshot the call holds: the last received, else the entry handle
Latest == IF Received = <<>> THEN prediction ELSE Last(Received)
Count(seq, t) == Len(SelectSeq(seq, LAMBDA e : e.type = t))

\* C14: with a progress callback, in either mode and through the fallback,
\* progress is called first with the entry handle, before any request, and
\* then with every snapshot received from the server, in the order received,
\* once each, the last one included, each as soon as it is received.
C14_ProgressOrder ==
    (Called /\ progress) =>
        /\ Steps[1] = Event("progress", prediction)
        /\ ProgressCalls = <<prediction>> \o Received
        /\ \A i \in 1..Len(Steps) :
              Steps[i].type \in {"wait_response", "get_response"}
                  => /\ i < Len(Steps)
                     /\ Steps[i + 1] = Event("progress", Steps[i].arg)

C14_Witness ==
    /\ progress
    /\ caught = "failed_result"
    /\ Len(Fetched) = 2
    /\ Len(ProgressCalls) = 4
    /\ Done

\* C15: when wait stops, by returning a handle or by PredictionFailed, the
\* snapshot it returns or reports the error of is the newest one received in
\* this call (the entry handle if none was), after a fallback too.
C15_DecidesOnLatest ==
    Done =>
        /\ outcome.kind = "returned" => outcome.value[1] = Latest
        /\ outcome.kind = "PredictionFailed" =>
              /\ Latest.status = "failed"
              /\ outcome.message = "Prediction failed: " \o Text(Latest.error)

\* the place of the abort in the history (0: none)
AbortAt ==
    IF \E k \in 1..Len(events) : events[k].type = "abort"
    THEN CHOOSE k \in 1..Len(events) : events[k].type = "abort"
    ELSE 0
AfterAbort == SubSeq(events, AbortAt + 1, Len(events))

\* C16: in poll mode the signal is read at the top of the loop only.  After
\* an abort during the sleep the pending status fetch is still issued, and
\* after an abort during the sleep or the fetch the answer is still taken
\* and reported to progress; wait then fails with Cancelled if that snapshot
\* is not terminal and ends on it as usual if it is; no other status fetch
\* follows.
C16_CancelAtLoopTop ==
    (options.type = "poll" /\ AbortAt > 0
        /\ events[AbortAt].arg \in {"sleeping", "fetching"}) =>
        LET gets == Count(AfterAbort, "get")
            answers == Args(SelectSeq(AfterAbort, LAMBDA e : e.type = "get_response"))
        IN /\ gets <= (IF events[AbortAt].arg = "sleeping" THEN 1 ELSE 0)
           /\ pc = "fetching" => gets = (IF events[AbortAt].arg = "sleeping" THEN 1 ELSE 0)
           /\ outcome.kind = "Cancelled" => answers # <<>>
           /\ answers # <<>> =>
                 /\ Len(answers) = 1
                 /\ Done
                 /\ progress => Last(events) = Event("progress", answers[1])
                 /\ outcome =
                       (IF answers[1].status = "succeeded" THEN Returned(answers[1])
                        ELSE IF answers[1].status = "failed"
                        THEN Thrown("PredictionFailed",
                                    "Prediction failed: " \o Text(answers[1].error))
                        ELSE Thrown("Cancelled", "Prediction cancelled"))

C16_Witness ==
    /\ options.type = "poll"
    /\ progress
    /\ AbortAt > 0
    /\ events[AbortAt].arg = "sleeping"
    /\ Count(AfterAbort, "get") = 1
    /\ Fetched # <<>>
    /\ Last(Fetched).status = "processing"
    /\ outcome.kind = "Cancelled"

\* C17 as stated: a status fetch that fails, in poll mode or after the
\* fallback, ends wait with StatusFetchFailed; no request and no progress
\* call follow it.
C17_FetchFailureEnds ==
    ErrorsOf("get_error") # <<>> =>
        /\ Done
        /\ outcome.kind = "StatusFetchFailed"
        /\ Last(Steps).type = "get_error"

\* C17 as amended: a status fetch that fails is not tried again; wait fails
\* at the first one, with StatusFetchFailed carrying the transport's message
\* when the failure is an axios error and with the failure itself otherwise;
\* no request and no progress call follow it.
C17_FetchFailureNotRetried ==
    ErrorsOf("get_error") # <<>> =>
        LET e == ErrorsOf("get_error")[1]
        IN /\ Done
           /\ Len(ErrorsOf("get_error")) = 1
           /\ Last(Steps) = Event("get_error", e)
           /\ Len(StatusFetches) = Len(Fetched) + 1
           /\ ProgressCalls = (IF progress THEN <<prediction>> \o Received ELSE <<>>)
           /\ outcome =
                 (IF e.axios
                  THEN Thrown("StatusFetchFailed",
                              "Failed to get prediction: " \o e.message)
                  ELSE Thrown("Raw", e.message))

C17_Witness ==
    /\ caught = "rejected"
    /\ Len(Fetched) = 1
    /\ Len(StatusFetches) = 2
    /\ outcome.kind = "StatusFetchFailed"

C19_OneBlockingRequest ==
    Called =>
        /\ options.type = "block" =>
              /\ Len(WaitRequests) = 1
              /\ WaitRequests[1].arg.id = prediction.id
              /\ \A i \in 1..Len(Steps) :
                    Steps[i].type \in {"get", "wait_response", "wait_error"}
                        => \E j \in 1..(i - 1) : Steps[j].type = "post_wait"
        /\ options.type = "poll" =>
              /\ WaitRequests = <<>>
              /\ prediction.status \in Terminal => StatusFetches = <<>>

C19_Witness ==
    /\ options.type = "block"
    /\ prediction.status = "failed"
    /\ Len(WaitRequests) = 1
    /\ Fetched = <<>>
    /\ Done

\* C20 as stated: when every status fetch succeeds and the server answers
\* with a terminal status from some fetch on, a wait that polls eventually
\* completes by returning the handle or failing with PredictionFailed.
C20_CompletesByStatus ==
    (current # None) ~>
        (pc = "done" /\ outcome.kind \in {"returned", "PredictionFailed"})

\* C20, amended: under the same conditions a wait that polls, in poll mode
\* or after the fallback, eventually completes; it completes with Cancelled
\* only when the signal is aborted, and otherwise at the first terminal
\* snapshot it receives, returning the handle (`succeeded`) or failing with
\* PredictionFailed (`failed`); no status fetch follows that snapshot.
C20_PollingCompletes ==
    /\ (current # None) ~> (pc = "done")
    /\ [](pc = "done" /\ current # None =>
             /\ outcome.kind \in {"returned", "PredictionFailed", "Cancelled"}
             /\ outcome.kind = "Cancelled" => signal = "aborted")
    /\ [](\A i \in 1..Len(Fetched) :
             Fetched[i].status \in Terminal =>
                 /\ i = Len(Fetched)
                 /\ Len(StatusFetches) = i
                 /\ pc = "done"
                 /\ outcome = (IF Fetched[i].status = "succeeded"
                               THEN Returned(Fetched[i])
                               ELSE Thrown("PredictionFailed",
                                           "Prediction failed: "
                                               \o Text(Fetched[i].error))))

C20_Witness ==
    /\ caught = "rejected"
    /\ signal = "active"
    /\ Len(Fetched) = MaxFetches
    /\ Fetched[1].status \notin Terminal
    /\ outcome.kind = "PredictionFailed"

====
